---- MODULE Spec2Model ----
(***************************************************************************)
(* Model of the keyboard-shortcut overlay of horilla-crm                   *)
(* (src/horilla_keys/static/horilla_keys/assets/js/short_key.js).          *)
(*                                                                         *)
(* The page is a single event loop: every action below is one task (a key  *)
(* event, a timer callback, an AJAX completion, a click), run to           *)
(* completion together with the MutationObserver callbacks it queues.      *)
(* Strings that the code transforms (toUpperCase / toLowerCase) are        *)
(* sequences of one-character strings; opaque strings (title, page,        *)
(* section, description) are TLA+ strings.                                 *)
(***************************************************************************)
EXTENDS Integers, Sequences, FiniteSets, TLC

\* ------------------------------------------------------------------ bounds

\* Timer ids handed out by setTimeout are 1, 2, ...; no more than this many
\* timers are created in one run.
MaxTimerId == 4

\* refreshShortcutKeys() requests simultaneously in flight (next to the initial
\* fetch, which is counted apart).
MaxInFlight == 1

\* Navigations requested in one run (window.location.href assignments).
MaxNav == 1

\* ------------------------------------------------------- program constants

\* modifierHoldTimer: null (a timer id is a positive integer, hence truthy).
NoTimer == 0

\* activeModifier: null
NoModifier == "null"

\* const MODIFIER_HOLD_DURATION = 200
MODIFIER_HOLD_DURATION == 200

\* closeShortcutModal: setTimeout(function() { modal.addClass('hidden'); }, 200)
CloseAnimationDelay == 200

\* createShortcutModal: setTimeout(setupModalObserver, 0)
ObserverSetupDelay == 0

\* ------------------------------------------------- String.prototype helpers

LowerLetters ==
    <<"a", "b", "c", "d", "e", "f", "g", "h", "i", "j", "k", "l", "m",
      "n", "o", "p", "q", "r", "s", "t", "u", "v", "w", "x", "y", "z">>
UpperLetters ==
    <<"A", "B", "C", "D", "E", "F", "G", "H", "I", "J", "K", "L", "M",
      "N", "O", "P", "Q", "R", "S", "T", "U", "V", "W", "X", "Y", "Z">>

\* The upper-case and the lower-case form of each letter.
UpperOf ==
    [c \in { LowerLetters[i] : i \in DOMAIN LowerLetters } |->
        UpperLetters[CHOOSE i \in DOMAIN LowerLetters : LowerLetters[i] = c]]

LowerOf ==
    [c \in { UpperLetters[i] : i \in DOMAIN UpperLetters } |->
        LowerLetters[CHOOSE i \in DOMAIN UpperLetters : UpperLetters[i] = c]]

UpperChar(c) == IF c \in DOMAIN UpperOf THEN UpperOf[c] ELSE c

LowerChar(c) == IF c \in DOMAIN LowerOf THEN LowerOf[c] ELSE c

toUpperCase(s) == [i \in DOMAIN s |-> UpperChar(s[i])]

toLowerCase(s) == [i \in DOMAIN s |-> LowerChar(s[i])]

ALT == <<"a", "l", "t">>

\* --------------------------------------------------------- server payloads

RawD ==
    [key |-> <<"d">>, command |-> <<"A", "l", "t">>, title |-> "Dashboard",
     section |-> "", description |-> "", page |-> "/dashboard"]

RawK ==
    [key |-> <<"K">>, command |-> <<"a", "l", "t">>, title |-> "Keys",
     section |-> "keys", description |-> "Shortcut keys", page |-> "/settings"]

RawC ==
    [key |-> <<"d">>, command |-> <<"c", "t", "r", "l">>, title |-> "Deals",
     section |-> "", description |-> "", page |-> "/deals"]

\* A second record with the key of RawD and the same modifier: the client code
\* accepts whatever list the endpoint sends.
RawE ==
    [key |-> <<"D">>, command |-> <<"a", "l", "t">>, title |-> "Leads",
     section |-> "", description |-> "", page |-> "/leads"]

\* data.shortcuts of a successful response
Payloads == { <<>>, <<RawD, RawE>>, <<RawC, RawD, RawK>> }

\* e.key of the keys that are pressed
KeyAlt == <<"A", "l", "t">>
KeyNames == { KeyAlt, <<"d">>, <<"k">> }

\* ------------------------------------------------------------------ state

VARIABLES
    initialized,        \* window.shortcutKeysInitialized
    handlers,           \* keydown/keyup.shortcutKeys handler pairs attached to document
    initFetch,          \* the initial $.ajax: "idle", "inflight" or "done"
    refreshInFlight,    \* refreshShortcutKeys() requests awaiting their response
    isMac,              \* /mac|darwin/i.test(navigator.userAgent)
    modalShown,         \* window.shortcutKeysState.modalShown
    activeModifier,     \* window.shortcutKeysState.activeModifier
    modifierHoldTimer,  \* window.shortcutKeysState.modifierHoldTimer
    shortcutKeysCache,  \* window.shortcutKeysCache
    timers,             \* the browser's pending setTimeout callbacks, oldest first
    nextId,             \* the id the next setTimeout returns
    modalExists,        \* #shortcutKeysModal is in the document
    modalHidden,        \* #shortcutKeysModal carries the class 'hidden'
    boxOpen,            \* the modal box carries 'opacity-100 scale-100'
    observerAttached,   \* data-observer-attached: the MutationObserver observes the modal
    content,            \* the rows of #shortcut-content
    href,               \* the last value assigned to window.location.href
    navCount,           \* how many times window.location.href was assigned
    lastSuccess,        \* the response that reached a success callback last
    ev                  \* the task that ran last

vars ==
    <<initialized, handlers, initFetch, refreshInFlight, isMac, modalShown,
      activeModifier, modifierHoldTimer, shortcutKeysCache, timers, nextId,
      modalExists, modalHidden, boxOpen, observerAttached, content, href,
      navCount, lastSuccess, ev>>

\* The state of one chart instance handed to attachClickHandler.
VARIABLES
    chartHandlers,      \* the urls arrays of the handler triples on chartInstance, oldest first
    cursor,             \* chartInstance.getDom().style.cursor
    cev                 \* the chart task that ran last

chartVars == <<chartHandlers, cursor, cev>>

\* The part of the page the handlers read and write, as one record.
World ==
    [modalShown |-> modalShown, activeModifier |-> activeModifier,
     modifierHoldTimer |-> modifierHoldTimer, cache |-> shortcutKeysCache,
     timers |-> timers, nextId |-> nextId, modalExists |-> modalExists,
     modalHidden |-> modalHidden, boxOpen |-> boxOpen,
     observerAttached |-> observerAttached, content |-> content,
     href |-> href, navCount |-> navCount, prevented |-> FALSE]

NoResponse == [arrived |-> FALSE, data |-> <<>>]

NoNavigation == [path |-> "", query |-> <<>>]

\* What is recorded of the last task: its kind; for a key event, whether focus
\* was in a text-entry element and whether preventDefault() was called; for a
\* successful response, data.shortcuts.
NoEvent == [type |-> "none", focus |-> FALSE, prevented |-> FALSE, data |-> <<>>]

\* ------------------------------------------------------------ timer service

\* setTimeout(callback, delay): the pending timers, in the order they were set.
\* `bound` tells whether the jQuery set the callback closes over holds the modal.
SetTimeout(w, kind, delay, bound) ==
    [w EXCEPT !.timers = Append(@, [id |-> w.nextId, kind |-> kind,
                                    delay |-> delay, bound |-> bound]),
              !.nextId = @ + 1]

ClearTimeout(w, id) ==
    [w EXCEPT !.timers = SelectSeq(@, LAMBDA t : t.id # id)]

\* The reset of the handle without its clearTimeout.
CancelHoldTimer_LeaksTimer(w) ==
    [w EXCEPT !.modifierHoldTimer = NoTimer]

\* if (state.modifierHoldTimer) { clearTimeout(...); state.modifierHoldTimer = null; }
CancelHoldTimer(w) ==
    IF w.modifierHoldTimer # NoTimer
    THEN [ClearTimeout(w, w.modifierHoldTimer) EXCEPT !.modifierHoldTimer = NoTimer]
    ELSE w

\* -------------------------------------------------------- overlay and state

\* closeShortcutModal() that forgets to reset activeModifier.
closeShortcutModal_KeepsModifier(w) ==
    LET w1 == [w EXCEPT !.boxOpen = IF w.modalExists THEN FALSE ELSE @]
        w2 == SetTimeout(w1, "hide", CloseAnimationDelay, w.modalExists)
        w3 == [w2 EXCEPT !.modalShown = FALSE]
    IN  CancelHoldTimer(w3)

\* closeShortcutModal(): the jQuery set `modal` is taken now; if the element
\* does not exist yet the set is empty and the delayed addClass does nothing.
closeShortcutModal(w) ==
    LET w1 == [w EXCEPT !.boxOpen = IF w.modalExists THEN FALSE ELSE @]
        w2 == SetTimeout(w1, "hide", CloseAnimationDelay, w.modalExists)
        w3 == [w2 EXCEPT !.modalShown = FALSE, !.activeModifier = NoModifier]
    IN  CancelHoldTimer(w3)

\* The MutationObserver callback, run for a change of the modal's class attribute.
ObserverCallback(w) ==
    IF w.observerAttached /\ w.modalHidden
    THEN CancelHoldTimer([w EXCEPT !.modalShown = FALSE,
                                   !.activeModifier = NoModifier])
    ELSE w

\* setupModalObserver()
setupModalObserver(w) ==
    IF w.modalExists /\ ~w.observerAttached
    THEN [w EXCEPT !.observerAttached = TRUE]
    ELSE w

\* modal.addClass('hidden'): jQuery writes the attribute only when it changes.
AddClassHidden(w) ==
    IF w.modalExists /\ ~w.modalHidden
    THEN ObserverCallback([w EXCEPT !.modalHidden = TRUE])
    ELSE w

\* A write of the modal's class attribute that leaves 'hidden' as it is
\* (classList.add of a class it has, another class added, the same value set
\* again): the observer is notified all the same.
WriteClass(w) ==
    IF w.modalExists THEN ObserverCallback(w) ELSE w

\* modal.removeClass('hidden')
RemoveClassHidden(w) ==
    IF w.modalExists /\ w.modalHidden
    THEN ObserverCallback([w EXCEPT !.modalHidden = FALSE])
    ELSE w

\* createShortcutModal()
createShortcutModal(w) ==
    IF w.modalExists
    THEN setupModalObserver(w)
    ELSE SetTimeout([w EXCEPT !.modalExists = TRUE, !.modalHidden = TRUE,
                              !.boxOpen = TRUE, !.content = <<>>],
                    "setup", ObserverSetupDelay, TRUE)

\* One row of #shortcut-content
Row(sk) ==
    [displayCommand |-> sk.displayCommand, key |-> sk.key, title |-> sk.title,
     description |-> sk.description]

\* showShortcutModal(keys) that fills the rows only when it creates the modal.
showShortcutModal_RowsOnce(w, keys) ==
    LET w1 == createShortcutModal(w)
        w2 == RemoveClassHidden(w1)
    IN  [w2 EXCEPT !.boxOpen = TRUE, !.modalShown = TRUE,
                   !.content = IF w.modalExists THEN @
                               ELSE [i \in DOMAIN keys |-> Row(keys[i])]]

\* showShortcutModal(keys)
showShortcutModal(w, keys) ==
    LET w1 == createShortcutModal(w)
        w2 == RemoveClassHidden(w1)
    IN  [w2 EXCEPT !.boxOpen = TRUE, !.modalShown = TRUE,
                   !.content = [i \in DOMAIN keys |-> Row(keys[i])]]

\* ----------------------------------------------------------------- catalog

OPTION == <<"O", "P", "T", "I", "O", "N">>
OptionSymbol == <<"U+2325">>

\* The mapping storing sk.key as the server sent it.
MapShortcut_RawKey(sk, mac) ==
    [key |-> sk.key,
     command |-> toLowerCase(sk.command),
     displayCommand |-> IF toLowerCase(sk.command) = ALT /\ mac
                        THEN OPTION ELSE toUpperCase(sk.command),
     displaySymbol |-> IF toLowerCase(sk.command) = ALT /\ mac
                       THEN OptionSymbol ELSE toUpperCase(sk.command),
     title |-> sk.title,
     section |-> sk.section,
     description |-> sk.description,
     page |-> sk.page]

\* The mapping storing the platform's label as the command on a Mac.
MapShortcut_MacCommand(sk, mac) ==
    [key |-> toUpperCase(sk.key),
     command |-> IF toLowerCase(sk.command) = ALT /\ mac
                 THEN toLowerCase(OPTION) ELSE toLowerCase(sk.command),
     displayCommand |-> IF toLowerCase(sk.command) = ALT /\ mac
                        THEN OPTION ELSE toUpperCase(sk.command),
     displaySymbol |-> IF toLowerCase(sk.command) = ALT /\ mac
                       THEN OptionSymbol ELSE toUpperCase(sk.command),
     title |-> sk.title,
     section |-> sk.section,
     description |-> sk.description,
     page |-> sk.page]

\* The object built for one server record by fetchShortcutKeys and by
\* refreshShortcutKeys (the same expression in both).
MapShortcut(sk, mac) ==
    [key |-> toUpperCase(sk.key),
     command |-> toLowerCase(sk.command),
     displayCommand |-> IF toLowerCase(sk.command) = ALT /\ mac
                        THEN OPTION ELSE toUpperCase(sk.command),
     displaySymbol |-> IF toLowerCase(sk.command) = ALT /\ mac
                       THEN OptionSymbol ELSE toUpperCase(sk.command),
     title |-> sk.title,
     section |-> sk.section,
     description |-> sk.description,
     page |-> sk.page]

\* data.shortcuts.map(...)
MapShortcuts(data, mac) == [i \in DOMAIN data |-> MapShortcut(data[i], mac)]

\* A lookup that returns the last entry that matches instead of the first.
FindMatch_Last(cache, pressedKey) ==
    LET hits == {i \in DOMAIN cache :
                    cache[i].key = pressedKey /\ toLowerCase(cache[i].command) = ALT}
    IN  IF hits = {} THEN 0 ELSE CHOOSE i \in hits : \A j \in hits : i >= j

\* Array.prototype.find with the handler's predicate: the index of the first
\* entry that matches, 0 when there is none.
FindMatch(cache, pressedKey) ==
    LET hits == {i \in DOMAIN cache :
                    cache[i].key = pressedKey /\ toLowerCase(cache[i].command) = ALT}
    IN  IF hits = {} THEN 0 ELSE CHOOSE i \in hits : \A j \in hits : i <= j

\* The target built without the test of match.section.
TargetUrl_AlwaysSection(match) ==
    [path |-> match.page, query |-> << <<"section", match.section>> >>]

\* new URL(match.page, origin) with searchParams.set("section", ...)
TargetUrl(match) ==
    [path |-> match.page,
     query |-> IF match.section # "" THEN << <<"section", match.section>> >> ELSE <<>>]

\* ------------------------------------------------------------ key handlers

\* The timer callback of the keydown handler is set with setTimeout.
ArmHoldTimer(w) ==
    [SetTimeout(w, "show", MODIFIER_HOLD_DURATION, TRUE)
        EXCEPT !.modifierHoldTimer = w.nextId]

\* The first branch without its focus check.
ModifierDown_NoFocusCheck(w, e) ==
    LET w1 == [w EXCEPT !.activeModifier = "alt"]
    IN  IF ~w1.modalShown /\ w1.modifierHoldTimer = NoTimer
        THEN ArmHoldTimer(w1)
        ELSE w1

\* $(document).on("keydown.shortcutKeys", function(e) {...}), first branch:
\* e.altKey && !activeModifier
ModifierDown(w, e) ==
    LET w1 == [w EXCEPT !.activeModifier = "alt"]
    IN  IF e.focus
        THEN w1
        ELSE IF ~w1.modalShown /\ w1.modifierHoldTimer = NoTimer
             THEN ArmHoldTimer(w1)
             ELSE w1

\* The match branch navigating without closeShortcutModal().
OnMatch_NoClose(w, e, match) ==
    LET w1 == [w EXCEPT !.prevented = TRUE]
    IN  IF e.focus
        THEN w1
        ELSE [w1 EXCEPT !.href = TargetUrl(match), !.navCount = @ + 1]

\* if (match) {...}
OnMatch(w, e, match) ==
    LET w1 == [w EXCEPT !.prevented = TRUE]
    IN  IF e.focus
        THEN w1
        ELSE [closeShortcutModal(w1) EXCEPT !.href = TargetUrl(match),
                                            !.navCount = @ + 1]

\* The second branch comparing e.key as typed, without toUpperCase().
SecondKeyDown_RawKey(w, e) ==
    LET pressedKey == e.key
        w1 == CancelHoldTimer(w)
        m  == FindMatch(w1.cache, pressedKey)
    IN  IF m # 0 THEN OnMatch(w1, e, w1.cache[m]) ELSE w1

\* The second branch calling e.preventDefault() before the lookup.
SecondKeyDown_AlwaysPrevent(w, e) ==
    LET pressedKey == toUpperCase(e.key)
        w1 == [CancelHoldTimer(w) EXCEPT !.prevented = TRUE]
        m  == FindMatch(w1.cache, pressedKey)
    IN  IF m # 0 THEN OnMatch(w1, e, w1.cache[m]) ELSE w1

\* second branch: activeModifier && e.altKey
SecondKeyDown(w, e) ==
    LET pressedKey == toUpperCase(e.key)
        w1 == CancelHoldTimer(w)
        m  == FindMatch(w1.cache, pressedKey)
    IN  IF m # 0 THEN OnMatch(w1, e, w1.cache[m]) ELSE w1

\* The handler taking the modifier branch for every event that carries the
\* modifier, without the test of !activeModifier.
KeyDownHandler_NoHeldCheck(w, e) ==
    IF e.altKey
    THEN ModifierDown(w, e)
    ELSE w

\* The handler whose modifier branch does not return: the event that records
\* the modifier is looked up as well.
KeyDownHandler_FallsThrough(w, e) ==
    IF e.altKey /\ w.activeModifier = NoModifier
    THEN SecondKeyDown(ModifierDown(w, e), e)
    ELSE IF w.activeModifier # NoModifier /\ e.altKey
         THEN SecondKeyDown(w, e)
         ELSE w

\* the keydown.shortcutKeys handler
KeyDownHandler(w, e) ==
    IF e.altKey /\ w.activeModifier = NoModifier
    THEN ModifierDown(w, e)
    ELSE IF w.activeModifier # NoModifier /\ e.altKey
         THEN SecondKeyDown(w, e)
         ELSE w

\* The keyup handler without its clearTimeout.
KeyUpHandler_NoCancel(w, e) ==
    IF ~e.altKey /\ w.activeModifier = "alt"
    THEN [w EXCEPT !.activeModifier = NoModifier, !.modifierHoldTimer = NoTimer]
    ELSE w

\* A keyup handler that closes the overlay when the modifier is released.
KeyUpHandler_Closes(w, e) ==
    IF ~e.altKey /\ w.activeModifier = "alt"
    THEN closeShortcutModal(w)
    ELSE w

\* the keyup.shortcutKeys handler
KeyUpHandler(w, e) ==
    IF ~e.altKey /\ w.activeModifier = "alt"
    THEN CancelHoldTimer([w EXCEPT !.activeModifier = NoModifier])
    ELSE w

\* jQuery runs every handler attached for the event, in order.
RECURSIVE DispatchKeyDown(_, _, _)
DispatchKeyDown(n, w, e) ==
    IF n = 0 THEN w ELSE DispatchKeyDown(n - 1, KeyDownHandler(w, e), e)

RECURSIVE DispatchKeyUp(_, _, _)
DispatchKeyUp(n, w, e) ==
    IF n = 0 THEN w ELSE DispatchKeyUp(n - 1, KeyUpHandler(w, e), e)

\* ---------------------------------------------------------------- actions

\* The run stays within the bounds: timer ids are left for the timers set so
\* far to run (the first show creates the modal and sets one more timer).
WithinBounds(w) ==
    /\ w.nextId - 1 + (IF ~w.modalExists /\ \E i \in DOMAIN w.timers : w.timers[i].kind = "show"
                       THEN 1 ELSE 0) <= MaxTimerId
    /\ w.navCount <= MaxNav

\* The task ends: the world it leaves becomes the state.
Commit(w, event) ==
    /\ WithinBounds(w)
    /\ modalShown' = w.modalShown
    /\ activeModifier' = w.activeModifier
    /\ modifierHoldTimer' = w.modifierHoldTimer
    /\ shortcutKeysCache' = w.cache
    /\ timers' = w.timers
    /\ nextId' = w.nextId
    /\ modalExists' = w.modalExists
    /\ modalHidden' = w.modalHidden
    /\ boxOpen' = w.boxOpen
    /\ observerAttached' = w.observerAttached
    /\ content' = w.content
    /\ href' = w.href
    /\ navCount' = w.navCount
    /\ ev' = [event EXCEPT !.prevented = w.prevented]
    /\ UNCHANGED chartVars

Event(type) == [NoEvent EXCEPT !.type = type]

\* What the handlers read of a key event e: e.key, e.altKey, and whether
\* $("input:focus, textarea:focus, select:focus") is non-empty as it runs.
KeyEvent(key, altKey, focus) == [key |-> key, altKey |-> altKey, focus |-> focus]

\* A key goes down anywhere in the document. The key Alt itself is never
\* reported without altKey. A key event the handlers leave without any effect
\* (no handler attached, or neither branch taken) changes nothing and is not
\* recorded: ev keeps the last task that did something.
KeyDown(key, altKey, focus) ==
    /\ key = KeyAlt => altKey
    /\ LET w == DispatchKeyDown(handlers, World, KeyEvent(key, altKey, focus))
       IN  IF w = World
           THEN UNCHANGED <<vars, chartVars>>
           ELSE /\ Commit(w, [Event("keydown") EXCEPT !.focus = focus])
                /\ UNCHANGED <<initialized, handlers, initFetch, refreshInFlight,
                               isMac, lastSuccess>>

\* A key goes up (the keyup handler reads no focus).
KeyUp(key, altKey) ==
    LET w == DispatchKeyUp(handlers, World, KeyEvent(key, altKey, FALSE))
    IN  IF w = World
        THEN UNCHANGED <<vars, chartVars>>
        ELSE /\ Commit(w, Event("keyup"))
             /\ UNCHANGED <<initialized, handlers, initFetch, refreshInFlight,
                            isMac, lastSuccess>>

\* The overlay's close button (onclick="closeShortcutModal()"); it can be
\* clicked while the overlay is on screen.
CloseButton ==
    /\ modalExists /\ ~modalHidden
    /\ Commit(closeShortcutModal(World), Event("close"))
    /\ UNCHANGED <<initialized, handlers, initFetch, refreshInFlight, isMac,
                   lastSuccess>>

\* Something else on the page hides the overlay by adding 'hidden' to it.
ExternalHide ==
    /\ modalExists /\ ~modalHidden
    /\ Commit(AddClassHidden(World), Event("exthide"))
    /\ UNCHANGED <<initialized, handlers, initFetch, refreshInFlight, isMac,
                   lastSuccess>>

\* Something else on the page writes the overlay's class attribute without
\* adding or removing 'hidden'. A write the observer does not react to
\* changes nothing and is not recorded.
ExternalClassWrite ==
    /\ modalExists
    /\ LET w == WriteClass(World)
       IN  IF w = World
           THEN UNCHANGED <<vars, chartVars>>
           ELSE /\ Commit(w, Event("extclass"))
                /\ UNCHANGED <<initialized, handlers, initFetch, refreshInFlight,
                               isMac, lastSuccess>>

\* Timer callbacks running in any order, whatever their delays.
MayFire_AnyOrder(i) == i \in DOMAIN timers

\* The callback of a pending timer may run next unless a timer set before it
\* is due no later: one set earlier with a delay that is not longer. So timers
\* of equal delay run in the order they were set, and the 0 ms timer may
\* overtake older 200 ms timers but runs before every timer set after it.
MayFire(i) == \A j \in 1..(i - 1) : timers[j].delay > timers[i].delay

TimerCallback(w, t) ==
    IF t.kind = "show" THEN showShortcutModal(w, w.cache)
    ELSE IF t.kind = "hide" THEN (IF t.bound THEN AddClassHidden(w) ELSE w)
    ELSE setupModalObserver(w)

TimerFire(i) ==
    /\ MayFire(i)
    /\ Commit(TimerCallback(ClearTimeout(World, timers[i].id), timers[i]),
              Event("timer_" \o timers[i].kind))
    /\ UNCHANGED <<initialized, handlers, initFetch, refreshInFlight, isMac,
                   lastSuccess>>

\* initShortcutKeys() without the guard on window.shortcutKeysInitialized.
InitShortcutKeys_NoGuard ==
    /\ initialized' = TRUE
    /\ shortcutKeysCache' = <<>>
    /\ handlers' = 0
    /\ initFetch' = "inflight"
    /\ ev' = Event("init")
    /\ UNCHANGED <<refreshInFlight, isMac, lastSuccess, modalShown, activeModifier,
                   modifierHoldTimer, timers, nextId, modalExists, modalHidden,
                   boxOpen, observerAttached, content, href, navCount,
                   chartVars>>

\* initShortcutKeys() attaching the handlers at once, outside the callback.
InitShortcutKeys_AttachesAtOnce ==
    /\ IF initialized
       THEN UNCHANGED <<initialized, handlers, initFetch, shortcutKeysCache>>
       ELSE /\ initialized' = TRUE
            /\ shortcutKeysCache' = <<>>
            /\ handlers' = 1
            /\ initFetch' = "inflight"
    /\ ev' = Event("init")
    /\ UNCHANGED <<refreshInFlight, isMac, lastSuccess, modalShown, activeModifier,
                   modifierHoldTimer, timers, nextId, modalExists, modalHidden,
                   boxOpen, observerAttached, content, href, navCount,
                   chartVars>>

\* initShortcutKeys(): $(document).ready, or any later call.
InitShortcutKeys ==
    /\ IF initialized
       THEN UNCHANGED <<initialized, handlers, initFetch, shortcutKeysCache>>
       ELSE /\ initialized' = TRUE
            /\ shortcutKeysCache' = <<>>
            /\ handlers' = 0
            /\ initFetch' = "inflight"
    /\ ev' = Event("init")
    /\ UNCHANGED <<refreshInFlight, isMac, lastSuccess, modalShown, activeModifier,
                   modifierHoldTimer, timers, nextId, modalExists, modalHidden,
                   boxOpen, observerAttached, content, href, navCount,
                   chartVars>>

\* success of the initial fetch, then the callback of initShortcutKeys
InitFetchSuccess(data) ==
    /\ initFetch = "inflight"
    /\ initFetch' = "done"
    /\ shortcutKeysCache' = MapShortcuts(data, isMac)
    /\ handlers' = handlers + 1
    /\ lastSuccess' = [arrived |-> TRUE, data |-> data]
    /\ ev' = [Event("fetch_ok") EXCEPT !.data = data]
    /\ UNCHANGED <<initialized, refreshInFlight, isMac, modalShown, activeModifier,
                   modifierHoldTimer, timers, nextId, modalExists, modalHidden,
                   boxOpen, observerAttached, content, href, navCount,
                   chartVars>>

\* An error path of the initial fetch that only logs and never calls the callback.
InitFetchError_NoCallback ==
    /\ initFetch = "inflight"
    /\ initFetch' = "done"
    /\ ev' = Event("fetch_err")
    /\ UNCHANGED <<shortcutKeysCache, handlers, lastSuccess, initialized,
                   refreshInFlight, isMac, modalShown, activeModifier,
                   modifierHoldTimer, timers, nextId, modalExists, modalHidden,
                   boxOpen, observerAttached, content, href, navCount,
                   chartVars>>

\* error of the initial fetch: callback([])
InitFetchError ==
    /\ initFetch = "inflight"
    /\ initFetch' = "done"
    /\ shortcutKeysCache' = <<>>
    /\ handlers' = handlers + 1
    /\ ev' = Event("fetch_err")
    /\ UNCHANGED <<lastSuccess, initialized, refreshInFlight, isMac, modalShown, activeModifier,
                   modifierHoldTimer, timers, nextId, modalExists, modalHidden,
                   boxOpen, observerAttached, content, href, navCount,
                   chartVars>>

\* refreshShortcutKeys() sends its request: an htmx:afterSwap or
\* htmx:afterSettle event of the shortcut list. Its listener is registered as
\* the script loads, so it may run before initShortcutKeys().
Refresh ==
    /\ refreshInFlight < MaxInFlight
    /\ refreshInFlight' = refreshInFlight + 1
    /\ ev' = Event("refresh")
    /\ UNCHANGED <<lastSuccess, initialized, handlers, initFetch, isMac, modalShown,
                   activeModifier, modifierHoldTimer, shortcutKeysCache, timers,
                   nextId, modalExists, modalHidden, boxOpen, observerAttached,
                   content, href, navCount,
                   chartVars>>

RefreshSuccess(data) ==
    /\ refreshInFlight > 0
    /\ refreshInFlight' = refreshInFlight - 1
    /\ shortcutKeysCache' = MapShortcuts(data, isMac)
    /\ lastSuccess' = [arrived |-> TRUE, data |-> data]
    /\ ev' = [Event("refresh_ok") EXCEPT !.data = data]
    /\ UNCHANGED <<initialized, handlers, initFetch, isMac, modalShown,
                   activeModifier, modifierHoldTimer, timers, nextId, modalExists,
                   modalHidden, boxOpen, observerAttached, content, href, navCount,
                   chartVars>>

RefreshError ==
    /\ refreshInFlight > 0
    /\ refreshInFlight' = refreshInFlight - 1
    /\ ev' = Event("refresh_err")
    /\ UNCHANGED <<lastSuccess, initialized, handlers, initFetch, isMac, modalShown,
                   activeModifier, modifierHoldTimer, shortcutKeysCache, timers,
                   nextId, modalExists, modalHidden, boxOpen, observerAttached,
                   content, href, navCount,
                   chartVars>>

\* ------------------------------------------------------------------ charts
\* horilla_charts.js, attachClickHandler(chartInstance, urls)

\* Bounds of the chart inputs: the entries the urls arrays of the chart hold
\* in total, the largest seriesIndex / dataIndex a chart event reports, and
\* how many times attachClickHandler attaches handlers to the one chart
\* instance.
MaxUrls == 2
MaxIndex == 1
MaxHandlers == 2

\* The values an entry of urls takes, and an item's own data.url.
UrlValues == { "", "#", "/deals" }
OwnUrl == "/own"

\* targetUrl before any branch assigns it: null. The handler only tests it
\* for truthiness, where null and the empty string agree.
NullUrl == ""

\* The urls argument: an array, or missing (undefined / null).
MissingUrls == [given |-> FALSE, list |-> <<>>]
GivenUrls(list) == [given |-> TRUE, list |-> list]
UrlLists ==
    UNION { [1..n -> UrlValues] : n \in 0..MaxUrls }
UrlArguments == { MissingUrls } \cup { GivenUrls(list) : list \in UrlLists }

\* params.seriesIndex and params.dataIndex: a number, or undefined.
Undefined == [defined |-> FALSE, value |-> 0]
Index(i) == [defined |-> TRUE, value |-> i]
Indexes == { Undefined } \cup { Index(i) : i \in 0..MaxIndex }

\* params.data && params.data.url: the item's own url, or nothing truthy
\* (no data object, no url property, null or '').
NoData == [present |-> FALSE, url |-> NullUrl]
Data(url) == [present |-> TRUE, url |-> url]
DataValues == { NoData, Data("#"), Data(OwnUrl) }

Params == [data : DataValues, seriesIndex : Indexes, dataIndex : Indexes]

\* A chart task: its type, the urls argument (of an attachClickHandler call)
\* and the navigations it triggered, in order.
NoChartEvent == [type |-> "none", urls |-> MissingUrls, navs |-> <<>>]
ChartEvent(type) == [NoChartEvent EXCEPT !.type = type]

\* What the chart handlers write while one event is dispatched:
\* style.cursor and the navigations triggered so far.
ChartWorld == [cursor |-> cursor, navs |-> <<>>]

\* urls[i] of the 0-based JavaScript array
UrlAt(urls, i) == urls[i + 1]

\* i < urls.length; undefined < n is false
BelowLength(i, urls) == i.defined /\ i.value < Len(urls)

\* The click handler's targetUrl: data.url, else urls[seriesIndex], else
\* urls[dataIndex], else null.
targetUrl(urls, params) ==
    IF params.data.present /\ params.data.url # NullUrl
    THEN params.data.url
    ELSE IF params.seriesIndex.defined /\ BelowLength(params.seriesIndex, urls)
    THEN UrlAt(urls, params.seriesIndex.value)
    ELSE IF params.dataIndex.defined /\ BelowLength(params.dataIndex, urls)
    THEN UrlAt(urls, params.dataIndex.value)
    ELSE NullUrl

\* With htmx loaded the handler clicks a temporary link carrying
\* hx-get = targetUrl, else it assigns window.location.href.
Navigation(target, htmx) ==
    [via |-> IF htmx THEN "htmx" ELSE "location", url |-> target]

\* A click handler that navigates to '#' as to any other target.
ClickHandler_FollowsHash(cw, urls, params, htmx) ==
    LET target == targetUrl(urls, params)
    IN  IF target # NullUrl
        THEN [cw EXCEPT !.navs = Append(@, Navigation(target, htmx))]
        ELSE cw

\* chartInstance.on('click', ...) of one attachClickHandler call
ClickHandler(cw, urls, params, htmx) ==
    LET target == targetUrl(urls, params)
    IN  IF target # NullUrl /\ target # "#"
        THEN [cw EXCEPT !.navs = Append(@, Navigation(target, htmx))]
        ELSE cw

\* The mouseover handler's hasUrl.
hasUrl(urls, params) ==
    IF params.data.present /\ params.data.url # NullUrl /\ params.data.url # "#"
    THEN TRUE
    ELSE BelowLength(params.dataIndex, urls) \/ BelowLength(params.seriesIndex, urls)

\* chartInstance.on('mouseover', ...)
MouseOverHandler(cw, urls, params) ==
    IF hasUrl(urls, params) THEN [cw EXCEPT !.cursor = "pointer"] ELSE cw

\* chartInstance.on('mouseout', ...)
MouseOutHandler(cw) == [cw EXCEPT !.cursor = "default"]

\* The chart calls the handlers of an event in the order they were attached;
\* attached[i] is the urls array the handlers of the i-th attaching call
\* close over.
RECURSIVE DispatchClick(_, _, _, _)
DispatchClick(attached, cw, params, htmx) ==
    IF attached = <<>> THEN cw
    ELSE DispatchClick(Tail(attached),
                       ClickHandler(cw, Head(attached), params, htmx),
                       params, htmx)

RECURSIVE DispatchMouseOver(_, _, _)
DispatchMouseOver(attached, cw, params) ==
    IF attached = <<>> THEN cw
    ELSE DispatchMouseOver(Tail(attached),
                           MouseOverHandler(cw, Head(attached), params), params)

RECURSIVE DispatchMouseOut(_, _)
DispatchMouseOut(attached, cw) ==
    IF attached = <<>> THEN cw
    ELSE DispatchMouseOut(Tail(attached), MouseOutHandler(cw))

\* The entries the arrays of the attached handlers hold in total.
RECURSIVE TotalUrls(_)
TotalUrls(attached) ==
    IF attached = <<>> THEN 0 ELSE Len(Head(attached)) + TotalUrls(Tail(attached))

\* attachClickHandler(chartInstance, urls): every call with a non-empty urls
\* attaches three more handlers, whatever is attached already.
AttachClickHandler(urls) ==
    /\ IF ~urls.given \/ Len(urls.list) = 0
       THEN UNCHANGED chartHandlers
       ELSE /\ Len(chartHandlers) < MaxHandlers
            /\ TotalUrls(chartHandlers) + Len(urls.list) <= MaxUrls
            /\ chartHandlers' = Append(chartHandlers, urls.list)
    /\ cev' = [ChartEvent("attach") EXCEPT !.urls = urls]
    /\ UNCHANGED cursor
    /\ UNCHANGED vars

\* The handlers keep the caller's array, not a copy: what the caller does to
\* the array it passed to the i-th attaching call is what they read.
CallerChangesUrls(i, list) ==
    /\ i \in DOMAIN chartHandlers
    /\ list # chartHandlers[i]
    /\ TotalUrls(chartHandlers) - Len(chartHandlers[i]) + Len(list) <= MaxUrls
    /\ chartHandlers' = [chartHandlers EXCEPT ![i] = list]
    /\ cev' = ChartEvent("change")
    /\ UNCHANGED cursor
    /\ UNCHANGED vars

\* An element of the chart is clicked; typeof htmx is read as the handlers run.
ChartClick(params, htmx) ==
    LET cw == DispatchClick(chartHandlers, ChartWorld, params, htmx)
    IN  /\ cursor' = cw.cursor
        /\ cev' = [ChartEvent("click") EXCEPT !.navs = cw.navs]
        /\ UNCHANGED chartHandlers
        /\ UNCHANGED vars

\* The pointer moves onto an element of the chart.
ChartMouseOver(params) ==
    LET cw == DispatchMouseOver(chartHandlers, ChartWorld, params)
    IN  /\ cursor' = cw.cursor
        /\ cev' = [ChartEvent("mouseover") EXCEPT !.navs = cw.navs]
        /\ UNCHANGED chartHandlers
        /\ UNCHANGED vars

\* The pointer leaves an element of the chart.
ChartMouseOut ==
    LET cw == DispatchMouseOut(chartHandlers, ChartWorld)
    IN  /\ cursor' = cw.cursor
        /\ cev' = [ChartEvent("mouseout") EXCEPT !.navs = cw.navs]
        /\ UNCHANGED chartHandlers
        /\ UNCHANGED vars

Init ==
    /\ initialized = FALSE
    /\ handlers = 0
    /\ initFetch = "idle"
    /\ refreshInFlight = 0
    /\ isMac \in BOOLEAN
    /\ modalShown = FALSE
    /\ activeModifier = NoModifier
    /\ modifierHoldTimer = NoTimer
    /\ shortcutKeysCache = <<>>
    /\ timers = <<>>
    /\ nextId = 1
    /\ modalExists = FALSE
    /\ modalHidden = TRUE
    /\ boxOpen = TRUE
    /\ observerAttached = FALSE
    /\ content = <<>>
    /\ href = NoNavigation
    /\ navCount = 0
    /\ lastSuccess = NoResponse
    /\ ev = NoEvent
    /\ chartHandlers = <<>>
    /\ cursor = ""
    /\ cev = NoChartEvent

Next ==
    \/ \E key \in KeyNames, altKey \in BOOLEAN, focus \in BOOLEAN :
           KeyDown(key, altKey, focus)
    \/ \E key \in KeyNames, altKey \in BOOLEAN : KeyUp(key, altKey)
    \/ CloseButton
    \/ ExternalHide
    \/ ExternalClassWrite
    \/ \E i \in DOMAIN timers : TimerFire(i)
    \/ InitShortcutKeys
    \/ \E data \in Payloads : InitFetchSuccess(data)
    \/ InitFetchError
    \/ Refresh
    \/ \E data \in Payloads : RefreshSuccess(data)
    \/ RefreshError

Spec == Init /\ [][Next]_vars

\* The chart on the page: no handler attached yet. The chart's handlers read
\* nothing of the shortcut overlay, whose state stays the initial one here.
ChartInit == Init /\ ~isMac

ChartNext ==
    \/ \E urls \in UrlArguments : AttachClickHandler(urls)
    \/ \E i \in 1..MaxHandlers, list \in UrlLists : CallerChangesUrls(i, list)
    \/ \E params \in Params, htmx \in BOOLEAN : ChartClick(params, htmx)
    \/ \E params \in Params : ChartMouseOver(params)
    \/ ChartMouseOut

ChartSpec == ChartInit /\ [][ChartNext]_chartVars

\* ------------------------------------------------------------- properties

\* A show-timer is pending in the browser.
HasShowTimer(w) == \E i \in DOMAIN w.timers : w.timers[i].kind = "show"

ShowPending == HasShowTimer(World)

\* The overlay is on screen: the element exists and is not hidden.
OnScreen == modalExists /\ ~modalHidden

\* The key events a handler can be given: every key of the model and some more.
LookupKeys == KeyNames \cup { <<"D">>, <<"K">>, <<"x">> }

KeyDownEvents ==
    {e \in [key : LookupKeys, altKey : BOOLEAN, focus : BOOLEAN] :
        e.key = KeyAlt => e.altKey}

KeyUpEvents == [key : LookupKeys, altKey : BOOLEAN, focus : {FALSE}]

\* Key equality ignoring case.
SameKey(a, b) == toLowerCase(a) = toLowerCase(b)

\* The entries of a catalog that a pressed key selects with the modifier alt.
Selected(cache, key) ==
    {i \in DOMAIN cache : SameKey(cache[i].key, key) /\ cache[i].command = ALT}

\* C1: whenever modalShown becomes false (closeShortcutModal from the close
\* button or the match path, or the observer after the overlay was hidden or
\* its class written while it is hidden), the
\* same step leaves activeModifier null, the timer handle null and no show-timer
\* pending; a show-timer is only ever set by a modifier-down step, and the
\* overlay only ever appears by a pending show-timer firing, so it is not shown
\* again unless a modifier-down is handled after the close.
C1_CloseResetsState ==
    [][ /\ (modalShown /\ ~modalShown') =>
              /\ activeModifier' = NoModifier
              /\ modifierHoldTimer' = NoTimer
              /\ ~\E i \in DOMAIN timers' : timers'[i].kind = "show"
              /\ ev'.type \in {"close", "keydown", "exthide", "extclass"}
        /\ (~ShowPending /\ \E i \in DOMAIN timers' : timers'[i].kind = "show") =>
              /\ ev'.type = "keydown"
              /\ activeModifier = NoModifier
              /\ activeModifier' = "alt"
        /\ ((~modalShown /\ modalShown') \/ (~OnScreen /\ modalExists' /\ ~modalHidden')) =>
              /\ ev'.type = "timer_show"
              /\ ShowPending
      ]_vars

\* C1 witness: the overlay was shown and then hidden from outside; the
\* observer has reset the state.
C1_Witness ==
    /\ ev.type = "exthide"
    /\ observerAttached /\ modalExists /\ modalHidden
    /\ ~modalShown /\ activeModifier = NoModifier /\ modifierHoldTimer = NoTimer

\* C2: a tap never shows the overlay. In every reachable state, handling a
\* key-up that no longer carries the modifier leaves the modifier cleared, the
\* timer handle null and no show-timer pending in the browser, so the timer
\* armed by the press can no longer fire; and while no modifier is held no
\* show-timer is pending at all, however many taps came before.
C2_TapNeverShows ==
    /\ \A e \in KeyUpEvents :
          ~e.altKey =>
             LET w == DispatchKeyUp(handlers, World, e)
             IN  /\ w.activeModifier = NoModifier
                 /\ w.modifierHoldTimer = NoTimer
                 /\ ~HasShowTimer(w)
                 /\ w.modalShown = modalShown
                 /\ w.modalHidden = modalHidden
    /\ (activeModifier = NoModifier) => ~ShowPending

\* C2 witness: two taps, each armed a timer and each key-up cancelled it;
\* the overlay was never created.
C2_Witness ==
    /\ ev.type = "keyup"
    /\ nextId = 3 /\ timers = <<>> /\ navCount = 0
    /\ ~modalExists /\ ~modalShown
    /\ activeModifier = NoModifier /\ modifierHoldTimer = NoTimer

\* The overlay is not visible: the flag is false and nothing is on screen.
OverlayOff == ~modalShown /\ ~OnScreen

\* C3: a modifier-down (first branch: altKey, no modifier recorded) with focus
\* outside text fields while the overlay is not visible arms the show-timer and
\* records its handle; a show-timer pending with the overlay off screen stays
\* pending through every step that is no key-down, key-up or close, until it
\* fires, and its firing shows the overlay (flag set, element on screen, no
\* show-timer left); while the overlay is shown or the modifier stays recorded
\* no key-down arms a timer again, so the hold shows the overlay once.
C3_HoldShowsOnce ==
    /\ [](\A e \in KeyDownEvents :
            LET w == DispatchKeyDown(handlers, World, e)
            IN  /\ (/\ handlers = 1 /\ e.altKey /\ ~e.focus
                    /\ activeModifier = NoModifier /\ OverlayOff) =>
                       /\ w.activeModifier = "alt"
                       /\ w.modifierHoldTimer = nextId
                       /\ \E i \in DOMAIN w.timers :
                             w.timers[i].kind = "show" /\ w.timers[i].id = nextId
                       /\ ~w.modalShown
                /\ (activeModifier # NoModifier \/ modalShown) =>
                       (HasShowTimer(w) => ShowPending))
    /\ [](modalShown => ~ShowPending)
    /\ [][ (/\ ShowPending /\ ~OnScreen
            /\ ev'.type \notin {"keydown", "keyup", "close", "exthide"}) =>
              \/ /\ \E i \in DOMAIN timers' : /\ timers'[i].kind = "show"
                                              /\ timers'[i].id = modifierHoldTimer
                 /\ modifierHoldTimer' = modifierHoldTimer
                 /\ activeModifier' = activeModifier
                 /\ ~modalShown' /\ ~(modalExists' /\ ~modalHidden')
              \/ /\ ev'.type = "timer_show"
                 /\ modalShown' /\ modalExists' /\ ~modalHidden'
                 /\ ~\E i \in DOMAIN timers' : timers'[i].kind = "show"
         ]_vars

\* C4: with the modifier recorded, a show-timer pending and focus outside text
\* fields, a key-down carrying the modifier whose key selects a catalog entry
\* cancels the timer (none pending afterwards, handle null, overlay not shown)
\* and in the same step assigns window.location.href once, to the page of an
\* entry the key selects.
C4_MatchBeforeThreshold ==
    \A e \in KeyDownEvents :
        (/\ handlers = 1 /\ e.altKey /\ ~e.focus
         /\ activeModifier = "alt" /\ ShowPending
         /\ Selected(shortcutKeysCache, e.key) # {}) =>
            LET w == DispatchKeyDown(handlers, World, e)
            IN  /\ ~HasShowTimer(w)
                /\ w.modifierHoldTimer = NoTimer
                /\ ~w.modalShown
                /\ w.navCount = navCount + 1
                /\ \E i \in Selected(shortcutKeysCache, e.key) :
                      w.href.path = shortcutKeysCache[i].page
                /\ w.prevented

\* C4 witness: the first hold was answered by a matching key before the overlay
\* ever existed: timer 1 was the show-timer, timer 2 the close's delayed hide.
C4_Witness ==
    /\ ev.type = "keydown" /\ ev.prevented /\ ~ev.focus
    /\ navCount = 1 /\ href.path = "/dashboard"
    /\ ~modalExists /\ nextId = 3
    /\ ~ShowPending /\ modifierHoldTimer = NoTimer

\* C5: for the catalog of every reachable state and every pressed key, the
\* lookup of the second key-down finds an entry if and only if the catalog holds
\* an entry whose key equals the pressed key ignoring case and whose modifier is
\* exactly alt; and every stored key is upper case.
C5_LookupIffEntry ==
    /\ \A k \in LookupKeys :
          (FindMatch(shortcutKeysCache, toUpperCase(k)) # 0)
              <=> (Selected(shortcutKeysCache, k) # {})
    /\ \A k \in LookupKeys :
          FindMatch(shortcutKeysCache, toUpperCase(k)) # 0 =>
              FindMatch(shortcutKeysCache, toUpperCase(k)) \in Selected(shortcutKeysCache, k)
    /\ \A i \in DOMAIN shortcutKeysCache :
          shortcutKeysCache[i].key = toUpperCase(shortcutKeysCache[i].key)

\* C5 witness: the server sent "d" and "Alt"; the catalog also holds a ctrl
\* entry with the same key; pressing "d" reached the alt entry's page.
C5_Witness ==
    /\ Len(shortcutKeysCache) = 3
    /\ navCount = 1 /\ href.path = "/dashboard"
    /\ Selected(shortcutKeysCache, <<"d">>) = {2}

\* The catalog holds exactly the entries of a response, in its order.
SameEntries(cache, data) ==
    /\ Len(cache) = Len(data)
    /\ \A i \in DOMAIN cache :
          /\ SameKey(cache[i].key, data[i].key)
          /\ toLowerCase(cache[i].command) = toLowerCase(data[i].command)
          /\ cache[i].title = data[i].title
          /\ cache[i].section = data[i].section
          /\ cache[i].page = data[i].page

\* C6: a failed response, to the initial fetch or to a refresh, leaves the
\* catalog exactly as it was before the response arrived.
C6_FailureKeepsCatalog ==
    [][ ev'.type \in {"fetch_err", "refresh_err"} =>
            shortcutKeysCache' = shortcutKeysCache ]_vars

\* C7: once a response has succeeded, the catalog equals the entries of the
\* successful response that arrived last.
C7_LastSuccessWins ==
    lastSuccess.arrived => SameEntries(shortcutKeysCache, lastSuccess.data)

\* C8: with focus inside a text-entry element no key-down, whether it is taken
\* as the modifier-down or as a second key that matches a catalog entry, sets a
\* timer, assigns window.location.href, or closes or shows the overlay.
C8_TextFocusSuppresses ==
    \A e \in KeyDownEvents :
        e.focus =>
            LET w == DispatchKeyDown(handlers, World, e)
            IN  /\ w.nextId = nextId
                /\ HasShowTimer(w) => ShowPending
                /\ w.navCount = navCount /\ w.href = href
                /\ w.modalShown = modalShown
                /\ w.modalHidden = modalHidden /\ w.modalExists = modalExists
                /\ w.boxOpen = boxOpen /\ w.content = content

\* C8 witness: with the overlay shown and focus in a text field, a key-down
\* that matches a catalog entry was handled; nothing navigated and the overlay
\* is still shown.
C8_Witness ==
    /\ ev.type = "keydown" /\ ev.focus /\ ev.prevented
    /\ navCount = 0 /\ modalShown /\ OnScreen
    /\ activeModifier = "alt"

\* C9: a key-down handled with focus inside a text-entry element never has its
\* default action suppressed.
C9_TextFocusPassesThrough ==
    (ev.type = "keydown" /\ ev.focus) => ~ev.prevented

\* C10: the timer handle is non-null only if a modifier is recorded as held
\* and modalShown is false.
C10_TimerHandleInvariant ==
    modifierHoldTimer # NoTimer => (activeModifier # NoModifier /\ ~modalShown)

\* The show-timers pending in the browser.
ShowTimers == {i \in DOMAIN timers : timers[i].kind = "show"}

\* C11: in every reachable state, so after any sequence of key-downs, key-ups,
\* closes, hides, timer firings and responses, at most one show-timer is
\* pending in the browser, and a pending show-timer is the one
\* modifierHoldTimer refers to.
C11_SingleShowTimer ==
    /\ \A i, j \in ShowTimers : i = j
    /\ \A i \in ShowTimers : timers[i].id = modifierHoldTimer

\* C11 witness: the third tap in a row is down; the timers of the first two
\* were cancelled by their key-ups, and the only timer pending is the third.
C11_Witness ==
    /\ ev.type = "keydown"
    /\ nextId = 4 /\ Len(timers) = 1
    /\ timers[1].kind = "show" /\ timers[1].id = 3
    /\ modifierHoldTimer = 3 /\ activeModifier = "alt"
    /\ ~modalExists /\ navCount = 0

\* C12: in every reachable state modalShown is true exactly when the overlay
\* element is on screen (it exists and does not carry the class 'hidden').
C12_FlagMatchesScreen ==
    modalShown <=> OnScreen

\* C13: once the response to the initial fetch has arrived, failed or not, the
\* key handlers are attached (one key-down handler, one key-up handler). If it
\* failed and no refresh has succeeded since, the catalog is the empty list,
\* every key-down is handled without a match (nothing navigates, no default
\* action is suppressed), a modifier-down outside text fields with the overlay
\* off still arms the show-timer, and a pending show-timer, when it fires,
\* shows the overlay with the rows of the cached list.
C13_FailedFetchKeepsHandling ==
    /\ (initFetch = "done") => handlers = 1
    /\ (initFetch = "done" /\ ~lastSuccess.arrived) =>
          /\ shortcutKeysCache = <<>>
          /\ \A e \in KeyDownEvents :
                LET w == DispatchKeyDown(handlers, World, e)
                IN  /\ ~w.prevented
                    /\ w.navCount = navCount /\ w.href = href
                    /\ (/\ e.altKey /\ ~e.focus
                        /\ activeModifier = NoModifier /\ OverlayOff) =>
                           /\ w.modifierHoldTimer = nextId
                           /\ \E i \in DOMAIN w.timers :
                                 w.timers[i].kind = "show" /\ w.timers[i].id = nextId
          /\ \A i \in ShowTimers :
                LET w == TimerCallback(ClearTimeout(World, timers[i].id), timers[i])
                IN  /\ w.modalShown /\ w.modalExists /\ ~w.modalHidden
                    /\ w.content = [j \in DOMAIN shortcutKeysCache |->
                                       Row(shortcutKeysCache[j])]

\* C13 witness: the initial fetch failed, no response has ever succeeded, and
\* a modifier hold has shown the overlay with an empty list.
C13_Witness ==
    /\ ev.type = "timer_show"
    /\ initFetch = "done" /\ ~lastSuccess.arrived /\ handlers = 1
    /\ modalShown /\ OnScreen /\ content = <<>>
    /\ activeModifier = "alt"

\* C14: with a modifier recorded, a key-down carrying the modifier whose key
\* selects no catalog entry assigns no navigation, does not suppress the
\* default action, and leaves activeModifier, modalShown and the overlay as
\* they were; its only effect is that the handle is null and the show-timer
\* the handle referred to is no longer pending, every other timer untouched.
C14_NoMatchFrame ==
    \A e \in KeyDownEvents :
        (/\ handlers = 1 /\ e.altKey /\ activeModifier # NoModifier
         /\ Selected(shortcutKeysCache, e.key) = {}) =>
            LET w == DispatchKeyDown(handlers, World, e)
            IN  /\ w.navCount = navCount /\ w.href = href
                /\ ~w.prevented
                /\ w.activeModifier = activeModifier
                /\ w.modalShown = modalShown
                /\ w.modalExists = modalExists /\ w.modalHidden = modalHidden
                /\ w.boxOpen = boxOpen /\ w.content = content
                /\ w.observerAttached = observerAttached
                /\ w.cache = shortcutKeysCache /\ w.nextId = nextId
                /\ w.modifierHoldTimer = NoTimer
                /\ w.timers = SelectSeq(timers, LAMBDA t : t.kind # "show")

\* C14 witness: Alt was pressed, its timer armed, and a key of no catalog
\* entry was pressed outside a text field before the timer fired: the timer is
\* gone, Alt is still recorded, nothing was prevented or navigated.
C14_Witness ==
    /\ ev.type = "keydown" /\ ~ev.focus /\ ~ev.prevented
    /\ Selected(shortcutKeysCache, <<"k">>) = {}
    /\ Selected(shortcutKeysCache, <<"d">>) # {}
    /\ activeModifier = "alt" /\ modifierHoldTimer = NoTimer
    /\ nextId = 2 /\ timers = <<>>
    /\ ~modalExists /\ ~modalShown /\ navCount = 0

\* C15: with the overlay shown and the modifier recorded, a key-down carrying
\* the modifier whose key selects a catalog entry, focus outside text fields,
\* closes the overlay (modalShown false, the box's exit transition started and
\* the delayed hide of the element set) and assigns window.location.href
\* exactly once, to the page of an entry the key selects, leaving
\* activeModifier null, the handle null and no show-timer pending; and the
\* delayed hide, when it fires next, takes the overlay off screen.
C15_MatchWhileShown ==
    \A e \in KeyDownEvents :
        (/\ handlers = 1 /\ e.altKey /\ ~e.focus
         /\ modalShown /\ OnScreen /\ activeModifier # NoModifier
         /\ Selected(shortcutKeysCache, e.key) # {}) =>
            LET w == DispatchKeyDown(handlers, World, e)
                hide == w.timers[Len(w.timers)]
            IN  /\ ~w.modalShown
                /\ w.activeModifier = NoModifier
                /\ w.modifierHoldTimer = NoTimer
                /\ ~HasShowTimer(w)
                /\ w.navCount = navCount + 1
                /\ \E i \in Selected(shortcutKeysCache, e.key) :
                      w.href.path = shortcutKeysCache[i].page
                /\ w.prevented
                /\ ~w.boxOpen
                /\ Len(w.timers) = Len(timers) + 1
                /\ hide.kind = "hide" /\ hide.bound /\ hide.id = nextId
                /\ TimerCallback(ClearTimeout(w, hide.id), hide).modalHidden

\* C15 witness: the overlay was shown by a hold, then the key of the
\* dashboard entry was pressed: one navigation, the state idle, and the
\* overlay in its exit transition with the delayed hide pending (timer 1 was
\* the show-timer, timer 2 the observer setup, timer 3 the delayed hide).
C15_Witness ==
    /\ ev.type = "keydown" /\ ev.prevented /\ ~ev.focus
    /\ navCount = 1 /\ href = [path |-> "/dashboard", query |-> <<>>]
    /\ modalExists /\ ~modalHidden /\ ~boxOpen /\ content # <<>>
    /\ ~modalShown /\ activeModifier = NoModifier
    /\ modifierHoldTimer = NoTimer /\ ~ShowPending
    /\ nextId = 4
    /\ \E i \in DOMAIN timers :
          timers[i].kind = "hide" /\ timers[i].bound /\ timers[i].id = 3

\* C16: whenever a key-down navigates, the target assigned to
\* window.location.href is the page of an entry the key selects, with the query
\* parameter section = that entry's section if the section is non-empty, and
\* with no query parameter if it is empty.
C16_TargetOfMatch ==
    \A e \in KeyDownEvents :
        (/\ handlers = 1 /\ e.altKey /\ ~e.focus /\ activeModifier # NoModifier
         /\ Selected(shortcutKeysCache, e.key) # {}) =>
            LET w == DispatchKeyDown(handlers, World, e)
            IN  \E i \in Selected(shortcutKeysCache, e.key) :
                   LET entry == shortcutKeysCache[i]
                   IN  /\ w.href.path = entry.page
                       /\ (entry.section # "") =>
                              w.href.query = << <<"section", entry.section>> >>
                       /\ (entry.section = "") => w.href.query = <<>>

\* C16 witness: the key of the entry with section "keys" was pressed; the
\* target is its page with the section parameter.
C16_Witness ==
    /\ ev.type = "keydown" /\ ev.prevented /\ ~ev.focus
    /\ navCount = 1
    /\ href = [path |-> "/settings", query |-> << <<"section", "keys">> >>]

\* C17: at most one key-down handler (and key-up handler) is ever attached:
\* a call of initShortcutKeys() after the first changes nothing, and handlers
\* are attached only by the response to the one initial fetch, from none to
\* one. So every key-down is handled once: it assigns window.location.href at
\* most once and sets at most one timer.
C17_SingleListener ==
    /\ [](handlers <= 1)
    /\ [](\A e \in KeyDownEvents :
            LET w == DispatchKeyDown(handlers, World, e)
            IN  /\ w.navCount <= navCount + 1
                /\ w.nextId <= nextId + 1
                /\ w = (IF handlers = 1 THEN KeyDownHandler(World, e) ELSE World))
    /\ [][ /\ (initialized /\ ev'.type = "init") =>
                  UNCHANGED <<handlers, initFetch, shortcutKeysCache>>
           /\ (handlers' # handlers) =>
                  /\ handlers = 0 /\ handlers' = 1
                  /\ ev'.type \in {"fetch_ok", "fetch_err"}
         ]_vars

\* C17 witness: initShortcutKeys() was called again after the handlers were
\* attached and a key press had navigated; still one handler.
C17_Witness ==
    /\ ev.type = "init"
    /\ initialized /\ initFetch = "done" /\ handlers = 1
    /\ navCount = 1 /\ shortcutKeysCache # <<>>

\* A catalog with its entries in another order.
Permute(cache, p) == [i \in DOMAIN cache |-> cache[p[i]]]

\* The navigation target a pressed key has in a catalog, by the handler's
\* lookup: none if the lookup finds no entry.
TargetOf(cache, key) ==
    LET m == FindMatch(cache, toUpperCase(key))
    IN  IF m = 0 THEN NoNavigation ELSE TargetUrl(cache[m])

\* C18 as stated: for the catalog of every reachable state, every order of its
\* entries and every pressed key, the lookup gives the navigation target it
\* gives with the catalog in its own order.
C18_OrderIrrelevant ==
    \A p \in Permutations(DOMAIN shortcutKeysCache) :
        \A k \in LookupKeys :
            TargetOf(Permute(shortcutKeysCache, p), k) = TargetOf(shortcutKeysCache, k)

\* A response has just stored the catalog: every non-empty catalog is stored
\* by such a step and stays as it is until the next one.
CatalogStored == ev.type \in {"fetch_ok", "refresh_ok"}

\* C18 amended: the lookup finds the first entry in catalog order that the key
\* selects, and a key-down that navigates goes to that entry's target; so for
\* every key that selects at most one entry every order of the catalog gives
\* the same target, and it is only among entries sharing (key, modifier) that
\* the order decides. The lookup is checked on every catalog a response
\* stores, the navigation on every key-down in every reachable state.
C18_FirstSelectedWins ==
    /\ CatalogStored =>
          \A k \in LookupKeys :
              LET sel == Selected(shortcutKeysCache, k)
              IN  /\ (\A i, j \in sel : i = j) =>
                        \A p \in Permutations(DOMAIN shortcutKeysCache) :
                            TargetOf(Permute(shortcutKeysCache, p), k)
                                = TargetOf(shortcutKeysCache, k)
                  /\ (sel # {}) =>
                        \E i \in sel :
                            /\ \A j \in sel : i <= j
                            /\ TargetOf(shortcutKeysCache, k).path
                                   = shortcutKeysCache[i].page
                  /\ (sel = {}) => TargetOf(shortcutKeysCache, k) = NoNavigation
    /\ (handlers = 1 /\ activeModifier # NoModifier) =>
          \A e \in KeyDownEvents :
              (e.altKey /\ ~e.focus /\ Selected(shortcutKeysCache, e.key) # {}) =>
                  LET w == DispatchKeyDown(handlers, World, e)
                  IN  /\ w.href = TargetOf(shortcutKeysCache, e.key)
                      /\ w.navCount = navCount + 1

\* C18 witness: the catalog holds a ctrl entry and an alt entry with the key D
\* and one alt entry with the key K; the press of K navigated to its page.
C18_Witness ==
    /\ ev.type = "keydown" /\ navCount = 1
    /\ Len(shortcutKeysCache) = 3
    /\ Selected(shortcutKeysCache, <<"k">>) = {3}
    /\ href.path = shortcutKeysCache[3].page

\* The catalog the other platform holds after the same responses: the same
\* payload mapped with the other value of isMac (the empty list stays empty).
OtherPlatformCache ==
    IF shortcutKeysCache = <<>> THEN <<>>
    ELSE MapShortcuts(lastSuccess.data, ~isMac)

\* C19: the catalog a response stores differs between the two platforms only
\* in displayCommand and displaySymbol: key, command, title, section,
\* description and page are the same and every lookup finds the same entry and
\* the same target; and in every reachable state every key-down has the same
\* effect on state, timers, overlay and navigation with the other platform's
\* catalog as with this one.
C19_PlatformOnlyDisplay ==
    /\ (shortcutKeysCache # <<>>) =>
          shortcutKeysCache = MapShortcuts(lastSuccess.data, isMac)
    /\ CatalogStored =>
          LET here  == MapShortcuts(ev.data, isMac)
              there == MapShortcuts(ev.data, ~isMac)
          IN  /\ shortcutKeysCache = here
              /\ DOMAIN there = DOMAIN here
              /\ \A i \in DOMAIN here :
                    there[i] = [here[i] EXCEPT
                                   !.displayCommand = there[i].displayCommand,
                                   !.displaySymbol = there[i].displaySymbol]
              /\ \A k \in LookupKeys :
                    /\ FindMatch(there, toUpperCase(k)) = FindMatch(here, toUpperCase(k))
                    /\ TargetOf(there, k) = TargetOf(here, k)
    /\ (handlers = 1 /\ activeModifier # NoModifier) =>
          LET there == [World EXCEPT !.cache = OtherPlatformCache]
          IN  \A e \in KeyDownEvents :
                  e.altKey =>
                      LET w1 == DispatchKeyDown(handlers, World, e)
                          w2 == DispatchKeyDown(handlers, there, e)
                      IN  w2 = [w1 EXCEPT !.cache = there.cache]

\* C19 witness: on a Mac the catalog shows OPTION for an alt entry, and the
\* press of that entry's key navigated to its page.
C19_Witness ==
    /\ isMac /\ ev.type = "keydown" /\ navCount = 1
    /\ \E i \in DOMAIN shortcutKeysCache :
          /\ shortcutKeysCache[i].displayCommand = OPTION
          /\ shortcutKeysCache[i].command = ALT
          /\ href.path = shortcutKeysCache[i].page

\* C20: with no modifier recorded, the overlay not shown and no timer handle
\* set, a key-down carrying the modifier while focus is inside a text-entry
\* element leaves activeModifier null, sets no timer and leaves modalShown as
\* it was.
C20_TextFocusStaysIdle ==
    (/\ handlers = 1 /\ activeModifier = NoModifier
     /\ ~modalShown /\ modifierHoldTimer = NoTimer) =>
        \A e \in KeyDownEvents :
            (e.altKey /\ e.focus) =>
                LET w == DispatchKeyDown(handlers, World, e)
                IN  /\ w.activeModifier = NoModifier
                    /\ w.modifierHoldTimer = NoTimer
                    /\ w.timers = timers /\ w.nextId = nextId
                    /\ w.modalShown = modalShown

\* C21: with the modifier recorded and a show-timer pending, a key-down that
\* carries the modifier and selects no entry leaves the modifier recorded and
\* no show-timer pending; and from any state with the modifier recorded and no
\* show-timer pending, no step arms a show-timer or shows the overlay: a timer
\* is armed again only by a key-down handled with no modifier recorded, that
\* is after a key-up, a close or the observer has reset it.
C21_NoRearmDuringHold ==
    /\ []((handlers = 1 /\ activeModifier # NoModifier /\ ShowPending) =>
            \A e \in KeyDownEvents :
                (e.altKey /\ Selected(shortcutKeysCache, e.key) = {}) =>
                    LET w == DispatchKeyDown(handlers, World, e)
                    IN  /\ w.activeModifier = activeModifier
                        /\ ~HasShowTimer(w)
                        /\ ~w.modalShown)
    /\ [][ (activeModifier # NoModifier /\ ~ShowPending) =>
              /\ ~\E i \in DOMAIN timers' : timers'[i].kind = "show"
              /\ modalShown' => modalShown
         ]_vars

\* C21 witness: a tap (timer 1, cancelled by its key-up), then a hold whose
\* timer 2 was cancelled by a key-down that matches nothing; the modifier is
\* still recorded and nothing is pending or shown.
C21_Witness ==
    /\ ev.type = "keydown" /\ ~ev.prevented /\ ~ev.focus
    /\ nextId = 3 /\ timers = <<>>
    /\ activeModifier = "alt" /\ modifierHoldTimer = NoTimer
    /\ ~modalExists /\ ~modalShown /\ navCount = 0

\* C22: with the overlay shown and the modifier recorded, a key-up that no
\* longer carries the modifier clears activeModifier and the timer handle and
\* changes nothing else: modalShown stays true and the overlay stays on screen
\* with its rows. An overlay that is shown and on screen stops being so only
\* by closeShortcutModal() from the close button, by a hide from outside, or
\* by a key-down that matches an entry and navigates.
C22_ReleaseKeepsOverlay ==
    /\ []((handlers = 1 /\ modalShown /\ OnScreen /\ activeModifier = "alt") =>
            \A e \in KeyUpEvents :
                ~e.altKey =>
                    DispatchKeyUp(handlers, World, e)
                        = [World EXCEPT !.activeModifier = NoModifier,
                                        !.modifierHoldTimer = NoTimer])
    /\ [][ (modalShown /\ OnScreen /\ ~(modalShown' /\ modalExists' /\ ~modalHidden')) =>
              \/ ev'.type \in {"close", "exthide"}
              \/ /\ ev'.type = "keydown" /\ ev'.prevented
                 /\ navCount' = navCount + 1
         ]_vars

\* C22 witness: the overlay was shown by a hold and the modifier was then
\* released; the overlay is still shown, nothing is held.
C22_Witness ==
    /\ ev.type = "keyup"
    /\ modalShown /\ OnScreen /\ boxOpen /\ content # <<>>
    /\ activeModifier = NoModifier /\ modifierHoldTimer = NoTimer
    /\ timers = <<>>

\* The rows of a catalog, one per entry, in its order.
RowsOf(cache) == [i \in DOMAIN cache |-> Row(cache[i])]

\* C23: the firing of the hold timer leaves the catalog as it is and sets the
\* overlay's rows to one row per entry of the catalog of that moment, in
\* catalog order, whatever the catalog was when the timer was armed and
\* whatever rows the overlay held before; so while a show-timer is pending,
\* a response that replaces the catalog replaces what the firing will show.
C23_RowsAtFiring ==
    /\ [](\A i \in ShowTimers :
            LET w == TimerCallback(ClearTimeout(World, timers[i].id), timers[i])
            IN  /\ w.content = RowsOf(shortcutKeysCache)
                /\ Len(w.content) = Len(shortcutKeysCache)
                /\ \A j \in DOMAIN w.content :
                      /\ w.content[j].key = shortcutKeysCache[j].key
                      /\ w.content[j].title = shortcutKeysCache[j].title
                /\ w.cache = shortcutKeysCache)
    /\ [][ ev'.type = "timer_show" =>
              /\ content' = RowsOf(shortcutKeysCache)
              /\ shortcutKeysCache' = shortcutKeysCache
         ]_vars

\* C23 witness: the overlay had been shown with the two rows of a two-entry
\* catalog and was hidden again; the timer of the next hold is pending, and the
\* response that has just arrived stored a three-entry catalog, whose three
\* rows the firing will show.
C23_Witness ==
    /\ ev.type = "refresh_ok" /\ ShowPending
    /\ \A i \in DOMAIN timers : timers[i].kind = "show"
    /\ modalExists /\ modalHidden /\ Len(content) = 2
    /\ Len(shortcutKeysCache) = 3
    /\ \E i \in ShowTimers :
          TimerCallback(ClearTimeout(World, timers[i].id), timers[i]).content
              = RowsOf(MapShortcuts(<<RawC, RawD, RawK>>, isMac))

\* C24: until the response to the initial fetch has arrived no handler is
\* attached, so every key-down and key-up leaves everything as it is, and the
\* page is still as it was loaded: nothing recorded, no timer ever set, no
\* overlay created, no navigation. The handlers are attached by that response
\* and by nothing else, so without it they never are.
C24_NoHandlingBeforeResponse ==
    (initFetch # "done") =>
        /\ handlers = 0
        /\ \A e \in KeyDownEvents : DispatchKeyDown(handlers, World, e) = World
        /\ \A e \in KeyUpEvents : DispatchKeyUp(handlers, World, e) = World
        /\ ~modalShown /\ activeModifier = NoModifier
        /\ modifierHoldTimer = NoTimer
        /\ timers = <<>> /\ nextId = 1
        /\ ~modalExists /\ navCount = 0 /\ href = NoNavigation

\* C24 witness: the initial fetch is still in flight while a refresh has
\* already stored a catalog with entries; key events still do nothing.
C24_Witness ==
    /\ ev.type = "refresh_ok"
    /\ initialized /\ initFetch = "inflight" /\ handlers = 0
    /\ Selected(shortcutKeysCache, <<"d">>) # {}

\* C25: with no modifier recorded, a key-down that carries the modifier is
\* handled as the modifier-down whatever its key: the modifier is recorded, at
\* most the show-timer is armed, nothing is looked up, prevented, closed or
\* navigated, also when the key selects a catalog entry; the same key-down
\* once more, focus outside text fields, is then looked up and navigates.
C25_FirstPressIsModifierDown ==
    (handlers = 1 /\ activeModifier = NoModifier) =>
        \A e \in KeyDownEvents :
            e.altKey =>
                LET w  == DispatchKeyDown(handlers, World, e)
                    w2 == DispatchKeyDown(handlers, w, e)
                IN  /\ w.activeModifier = "alt"
                    /\ ~w.prevented
                    /\ w.navCount = navCount /\ w.href = href
                    /\ w.modalShown = modalShown /\ w.boxOpen = boxOpen
                    /\ w.modalHidden = modalHidden
                    /\ \A i \in DOMAIN w.timers : w.timers[i].kind = "hide" =>
                          \E j \in DOMAIN timers : timers[j] = w.timers[i]
                    /\ w.nextId <= nextId + 1
                    /\ (~e.focus /\ Selected(shortcutKeysCache, e.key) # {}) =>
                          /\ w2.navCount = navCount + 1
                          /\ w2.href = TargetOf(shortcutKeysCache, e.key)

\* C25 witness: the overlay was shown and closed by its button; the next
\* key-down carrying the modifier was taken as a modifier-down: it armed the
\* timer during the exit transition and nothing navigated.
C25_Witness ==
    /\ ev.type = "keydown" /\ ~ev.prevented /\ ~ev.focus
    /\ navCount = 0 /\ href = NoNavigation
    /\ modalExists /\ ~modalHidden /\ ~boxOpen /\ ~modalShown
    /\ activeModifier = "alt" /\ ShowPending
    /\ \E i \in DOMAIN timers : timers[i].kind = "hide" /\ timers[i].bound
    /\ Selected(shortcutKeysCache, <<"d">>) # {}

\* The delayed hides of closeShortcutModal() that are pending.
HideTimers == {i \in DOMAIN timers : timers[i].kind = "hide"}

\* C26: the overlay is never shown while a delayed hide of an earlier
\* closeShortcutModal() is still pending, so a delayed hide never hides an
\* overlay shown after its close: a show-timer armed after the close runs
\* after the hide. When the delayed hide runs with the overlay still on
\* screen, the overlay is hidden and the observer's reset leaves no
\* show-timer pending and nothing recorded; when the overlay was hidden
\* already, the delayed hide changes nothing.
C26_HideBeforeLaterShow ==
    /\ modalShown => HideTimers = {}
    /\ \A i \in HideTimers :
          MayFire(i) =>
              LET w0 == ClearTimeout(World, timers[i].id)
                  w  == TimerCallback(w0, timers[i])
              IN  IF OnScreen /\ timers[i].bound
                  THEN /\ w.modalHidden /\ ~w.modalShown
                       /\ ~HasShowTimer(w)
                       /\ w.modifierHoldTimer = NoTimer
                       /\ w.activeModifier = NoModifier
                  ELSE w = w0

\* C26 witness: the overlay was shown and closed; during the exit transition
\* a modifier-down armed a show-timer, which is pending behind the delayed
\* hide of the close.
C26_Witness ==
    /\ ev.type = "keydown"
    /\ OnScreen /\ ~boxOpen /\ ~modalShown /\ observerAttached
    /\ activeModifier = "alt"
    /\ Len(timers) = 2
    /\ timers[1].kind = "hide" /\ timers[1].bound
    /\ timers[2].kind = "show" /\ timers[2].id = modifierHoldTimer

\* An index that is a position of urls.
Within(i, urls) == i.defined /\ (i.value + 1) \in DOMAIN urls

\* The target the clicked item resolves to: its own data.url if it has one,
\* else the entry of urls at seriesIndex if that is a position of urls, else
\* the entry at dataIndex if that is one, else nothing.
ResolvedTarget(urls, params) ==
    IF params.data.present /\ params.data.url # ""
    THEN params.data.url
    ELSE IF Within(params.seriesIndex, urls)
    THEN urls[params.seriesIndex.value + 1]
    ELSE IF Within(params.dataIndex, urls)
    THEN urls[params.dataIndex.value + 1]
    ELSE ""

\* The clicked item would take the user somewhere.
Navigable(urls, params) ==
    ResolvedTarget(urls, params) # "" /\ ResolvedTarget(urls, params) # "#"

\* The targets a click resolves to and would follow, one for each attaching
\* call whose urls make the item navigable, in the order of the calls.
RECURSIVE FollowedTargets(_, _)
FollowedTargets(attached, params) ==
    IF attached = <<>> THEN <<>>
    ELSE (IF Navigable(Head(attached), params)
          THEN <<ResolvedTarget(Head(attached), params)>>
          ELSE <<>>) \o FollowedTargets(Tail(attached), params)

\* C27: a chart click navigates only when the target it resolves to (the
\* item's own data.url, else urls[seriesIndex] when seriesIndex is within
\* urls, else urls[dataIndex] when dataIndex is within urls) is non-empty and
\* not '#', and it navigates to that target, once for each attachClickHandler
\* call that attached handlers and with the urls of that call; a call with a
\* missing or empty urls attaches nothing, and with no handler attached no
\* click navigates.
C27_ClickFollowsResolvedTarget ==
    /\ [](/\ cev.type = "click" /\ chartHandlers = <<>> => cev.navs = <<>>
          /\ cev.type = "click" =>
                 \A n \in DOMAIN cev.navs : cev.navs[n].url \notin { "", "#" }
          /\ \A params \in Params, htmx \in BOOLEAN :
                 LET cw == DispatchClick(chartHandlers, ChartWorld, params, htmx)
                     followed == FollowedTargets(chartHandlers, params)
                 IN  /\ cw.cursor = cursor
                     /\ Len(cw.navs) = Len(followed)
                     /\ \A n \in DOMAIN followed :
                            /\ cw.navs[n].url = followed[n]
                            /\ cw.navs[n].via = IF htmx THEN "htmx" ELSE "location")
    /\ [][ /\ cev'.type = "attach" =>
                 chartHandlers' =
                     IF cev'.urls.given /\ cev'.urls.list # <<>>
                     THEN Append(chartHandlers, cev'.urls.list)
                     ELSE chartHandlers
           /\ cev'.type = "click" =>
                 /\ chartHandlers = <<>> => cev'.navs = <<>>
                 /\ chartHandlers' = chartHandlers ]_chartVars

\* Two calls attached handlers, each for ['/deals']; one click was resolved
\* through the indexes by both and navigated twice.
C27_Witness ==
    /\ cev.type = "click"
    /\ chartHandlers = << <<"/deals">>, <<"/deals">> >>
    /\ cev.navs = << [via |-> "htmx", url |-> "/deals"],
                     [via |-> "htmx", url |-> "/deals"] >>

\* C28: with click handling attached, a mouseover turns the cursor into the
\* pointer only over an element whose click would navigate, and a mouseout
\* always leaves the default cursor.
C28_PointerOnlyIfClickNavigates ==
    chartHandlers # <<>> =>
        /\ DispatchMouseOut(chartHandlers, ChartWorld).cursor = "default"
        /\ \A params \in Params :
               LET over == DispatchMouseOver(chartHandlers, ChartWorld, params)
               IN  over.cursor = "pointer" /\ cursor # "pointer" =>
                       \A htmx \in BOOLEAN :
                           DispatchClick(chartHandlers, ChartWorld, params, htmx).navs # <<>>

====
